---------------------------- MODULE Spec2Model ----------------------------
(***************************************************************************)
(* Model of the air-quality ETL pipeline in src/ETL_PIPELINE_DELIVERY:     *)
(*   extract.py    _now_ts, _save_raw, _fetch_city, fetch_all_cities       *)
(*   transform.py  load_raw_json, compute_aqi, compute_severity,           *)
(*                 classify_risk, transform_all                            *)
(*   load.py       load_to_supabase                                        *)
(* The three stages communicate through files only, so each stage has its  *)
(* own specification over its own variables (SpecFetch, SpecTransform,     *)
(* SpecAqi, SpecLoad); the variables of the other stages stay idle.        *)
(***************************************************************************)
EXTENDS Integers, Sequences, FiniteSets

VARIABLES
    \* ---- extract.py: fetch_all_cities / _fetch_city / _save_raw ----------
    f_pc,            \* "for" (loop of fetch_all_cities), "while" (loop of
                     \* _fetch_city), "ret" (_fetch_city returned), "done"
    cities,          \* the list fetch_all_cities iterates
    ci,              \* index of the current city in cities
    attempt,         \* attempt
    last_error,      \* last_error (NoError is None)
    ret,             \* what the last _fetch_city call returned
    results,         \* results
    clock,           \* wall clock, in ticks of SLEEP_BETWEEN_CALLS (half seconds)
    raw_files,       \* paths in RAW_DIR that some _save_raw call has opened for writing
    reopened,        \* history: paths opened for writing again by a later _save_raw call
    events,          \* history of the current _fetch_city call: its requests.get
                     \* calls and its time.sleep calls, in order
    \* ---- transform.py: transform_all -----------------------------------
    t_pc,            \* "start", "done"
    frame,           \* the hourly rows of the raw files, as pd.DataFrame(hourly) holds them
    dataset,         \* the frame transform_all returns
    scored,          \* history: the rows compute_severity was applied to
    \* ---- transform.py: combined["pm2_5"].apply(compute_aqi) -------------
    pm_series,       \* a pm2_5 column of two rows
    aqi_col,         \* the AQI column computed from it (<<>> before)
    \* ---- load.py: load_to_supabase -------------------------------------
    l_pc,            \* "for" (head of the batch loop), "while" (retry loop), "done"
    total_records,   \* len(df)
    start,           \* the value range(0, total_records, BATCH_SIZE) yields next
    batch,           \* <<lo, hi>>: the rows df.iloc[start:start+BATCH_SIZE], lo <= i < hi
    l_attempt,       \* attempt
    inserted_count,  \* inserted_count
    insert_log,      \* history: every supabase insert call, [lo, hi, ok]
    sleep_log,       \* history: every time.sleep(2 ** attempt) of the loader
    failed_log       \* history: the starts printed as "Failed to insert batch"

loadVars == <<l_pc, total_records, start, batch, l_attempt, inserted_count,
              insert_log, sleep_log, failed_log>>

fetchVars == <<f_pc, cities, ci, attempt, last_error, ret, results, clock,
               raw_files, reopened, events>>

transformVars == <<t_pc, frame, dataset, scored>>

aqiVars == <<pm_series, aqi_col>>

vars == <<fetchVars, transformVars, aqiVars, loadVars>>

Min(a, b) == IF a <= b THEN a ELSE b

RECURSIVE Pow2(_)
Pow2(n) == IF n <= 0 THEN 1 ELSE 2 * Pow2(n - 1)

(***************************************************************************)
(*                        extract.py: the Fetcher                          *)
(***************************************************************************)
FETCH_MAX_RETRIES == 3

\* SLEEP_BETWEEN_CALLS = 0.5 s is one clock tick; a second is two ticks.
SLEEP_BETWEEN_CALLS == 1
TicksPerSecond == 2

\* Longest city list fetch_all_cities is called with.
MaxCities == 2

\* How long, in ticks, one requests.get call can take: under a tick, or one
\* tick (the code cuts a call off after TIMEOUT_SECONDS).
Latencies == {0, 1}

\* City names are sequences of characters over a small alphabet that has an
\* upper-case letter, its lower-case form, the space and the underscore.
CityNames == {<<"D">>, <<"D", " ", "d">>, <<"d", "_", "d">>}

CityLists == UNION {[1..n -> CityNames] : n \in 1..MaxCities}

\* str.replace(' ', '_') and str.lower(), character by character.
ReplaceSpace(c) == IF c = " " THEN "_" ELSE c
Lower(c) == IF c = "D" THEN "d" ELSE c
FileStem(city) == [i \in 1..Len(city) |-> Lower(ReplaceSpace(city[i]))]

\* _now_ts(): datetime.utcnow().strftime("%Y%m%dT%H%M%SZ"), the clock cut to
\* whole seconds.
NowTs(t) == t \div TicksPerSecond

\* The path _save_raw builds: RAW_DIR / f"{stem}_raw_{ts}.{ext}".
RawPath(city, t, ext) == [stem |-> FileStem(city), ts |-> NowTs(t), ext |-> ext]

\* The paths one _save_raw(payload, city) call opens for writing at time t:
\* the .json file, and the .txt file too when json.dump raised.
SavePaths(city, t, json_ok) ==
    IF json_ok THEN {RawPath(city, t, "json")}
               ELSE {RawPath(city, t, "json"), RawPath(city, t, "txt")}

\* The path _save_raw returns.
SavedPath(city, t, json_ok) == RawPath(city, t, IF json_ok THEN "json" ELSE "txt")

\* Mutant: the loop runs once more (`<=` for `<`).
FetchRetryCond_le(a) == a <= FETCH_MAX_RETRIES

\* `while attempt < max_retries`
FetchRetryCond(a) == a < FETCH_MAX_RETRIES

\* `backoff = 2 ** (attempt - 1)`, in seconds
Backoff(a) == Pow2(a - 1)

NoError == "None"
\* str(e) of the exceptions an attempt can end with: a requests.RequestException
\* (transport failure, non-2xx status) or any other Exception.
Errors == {"RequestException", "Exception"}
NoResult == [city |-> <<>>, success |-> "none"]

\* `res = _fetch_city(city)`: the call is entered and runs up to the first
\* test of the loop condition.
FetchCityCall ==
    /\ f_pc = "for"
    /\ ci <= Len(cities)
    /\ attempt' = 0
    /\ last_error' = NoError
    /\ events' = <<>>
    /\ IF FetchRetryCond(0)
         THEN /\ f_pc' = "while"
              /\ ret' = NoResult
         ELSE /\ f_pc' = "ret"
              /\ ret' = [city |-> cities[ci], success |-> "false", error |-> NoError]
    /\ UNCHANGED <<cities, ci, results, clock, raw_files, reopened>>
    /\ UNCHANGED <<transformVars, aqiVars, loadVars>>

\* One pass of the while loop in which requests.get, after dur ticks, and
\* raise_for_status succeed: the payload is saved and the success result
\* returned.
FetchAttemptOk(json_ok, dur) ==
    /\ f_pc = "while"
    /\ attempt' = attempt + 1
    /\ events' = Append(events, [type |-> "get", attempt |-> attempt + 1,
                                 outcome |-> "ok", secs |-> 0])
    /\ clock' = clock + dur
    /\ reopened' = reopened \cup (SavePaths(cities[ci], clock', json_ok) \cap raw_files)
    /\ raw_files' = raw_files \cup SavePaths(cities[ci], clock', json_ok)
    /\ ret' = [city |-> cities[ci], success |-> "true",
               raw_path |-> SavedPath(cities[ci], clock', json_ok)]
    /\ f_pc' = "ret"
    /\ UNCHANGED <<cities, ci, last_error, results>>
    /\ UNCHANGED <<transformVars, aqiVars, loadVars>>

\* One pass of the while loop in which the try block raises e, after dur
\* ticks and before anything is written: last_error is set, the backoff sleep taken unconditionally, and the loop condition tested again; when it
\* fails the failure result is returned.
FetchAttemptFail(e, dur) ==
    /\ f_pc = "while"
    /\ attempt' = attempt + 1
    /\ last_error' = e
    /\ events' = events \o
         <<[type |-> "get", attempt |-> attempt + 1, outcome |-> e, secs |-> 0],
           [type |-> "sleep", attempt |-> attempt + 1, outcome |-> "",
            secs |-> Backoff(attempt + 1)]>>
    /\ clock' = clock + dur + TicksPerSecond * Backoff(attempt + 1)
    /\ IF FetchRetryCond(attempt + 1)
         THEN /\ f_pc' = "while"
              /\ UNCHANGED ret
         ELSE /\ f_pc' = "ret"
              /\ ret' = [city |-> cities[ci], success |-> "false", error |-> e]
    /\ UNCHANGED <<cities, ci, results, raw_files, reopened>>
    /\ UNCHANGED <<transformVars, aqiVars, loadVars>>

\* `results.append(res); time.sleep(SLEEP_BETWEEN_CALLS)` and the next city.
FetchAppend ==
    /\ f_pc = "ret"
    /\ results' = Append(results, ret)
    /\ clock' = clock + SLEEP_BETWEEN_CALLS
    /\ ci' = ci + 1
    /\ f_pc' = "for"
    /\ UNCHANGED <<cities, attempt, last_error, ret, raw_files, reopened, events>>
    /\ UNCHANGED <<transformVars, aqiVars, loadVars>>

\* `return results`
FetchReturn ==
    /\ f_pc = "for"
    /\ ci > Len(cities)
    /\ f_pc' = "done"
    /\ UNCHANGED <<cities, ci, attempt, last_error, ret, results, clock,
                   raw_files, reopened, events>>
    /\ UNCHANGED <<transformVars, aqiVars, loadVars>>

FetchNext ==
    \/ FetchCityCall
    \/ \E json_ok \in BOOLEAN, dur \in Latencies : FetchAttemptOk(json_ok, dur)
    \/ \E e \in Errors, dur \in Latencies : FetchAttemptFail(e, dur)
    \/ FetchAppend
    \/ FetchReturn

(***************************************************************************)
(*                      transform.py: the Transformer                      *)
(***************************************************************************)
\* A cell of a frame: a number, a non-numeric string, a JSON null, or (in a
\* raw hourly series only) a column the payload does not have.  After
\* pd.to_numeric a cell is a number or NaN.
Num(x) == [k |-> "num", v |-> x]
NA == [k |-> "na", v |-> 0]
Str == [k |-> "str", v |-> 0]
Absent == [k |-> "absent", v |-> 0]

\* pd.isna / pd.notna
IsNa(c) == c.k = "na"
NotNa(c) == c.k # "na"

\* numeric_cols of transform_all
numeric_cols == {"pm10", "pm2_5", "carbon_monoxide", "nitrogen_dioxide",
                 "sulphur_dioxide", "ozone", "uv_index"}

\* Most rows a raw frame holds.
MaxFrameRows == 1

\* The rows a raw hourly series can hold.  The default API_BASE asks for no
\* uv_index, so that column may be absent.
RawRows ==
    [pm10 : {NA, Num(40)},
     pm2_5 : {NA, Str, Num(40), Num(80)},
     carbon_monoxide : {NA, Num(5)},
     nitrogen_dioxide : {NA, Num(20)},
     sulphur_dioxide : {NA, Num(10)},
     ozone : {NA, Num(30)},
     uv_index : {Absent, NA, Num(3)}]

RawFrames == UNION {[1..n -> RawRows] : n \in 0..MaxFrameRows}

\* load_raw_json: `if col not in df.columns: df[col] = pd.NA`
FillMissing(c) == IF c.k = "absent" THEN NA ELSE c
load_raw_json(row) == [col \in numeric_cols |-> FillMissing(row[col])]

\* pd.to_numeric(combined[col], errors="coerce")
ToNumeric(c) == IF c.k = "num" THEN c ELSE NA
CoerceRow(row) == [col \in numeric_cols |-> ToNumeric(row[col])]

\* Mutant: the dropna step is left out.
DropNaAll_skipped(rows) == rows

\* combined.dropna(subset=numeric_cols, how="all") keeps a row that has a
\* value in at least one of the seven columns.
DropKeeps(row) == \E col \in numeric_cols : NotNa(row[col])
DropNaAll(rows) == SelectSeq(rows, DropKeeps)

NoCategory == "<NA>"

\* Mutant: the first bound is exclusive (`<` for `<=`).
compute_aqi_exclusive(pm2_5) ==
    IF IsNa(pm2_5) THEN NoCategory
    ELSE IF pm2_5.v < 50 THEN "Good"
    ELSE IF pm2_5.v <= 100 THEN "Moderate"
    ELSE IF pm2_5.v <= 200 THEN "Unhealthy"
    ELSE IF pm2_5.v <= 300 THEN "Very Unhealthy"
    ELSE "Hazardous"

compute_aqi(pm2_5) ==
    IF IsNa(pm2_5) THEN NoCategory
    ELSE IF pm2_5.v <= 50 THEN "Good"
    ELSE IF pm2_5.v <= 100 THEN "Moderate"
    ELSE IF pm2_5.v <= 200 THEN "Unhealthy"
    ELSE IF pm2_5.v <= 300 THEN "Very Unhealthy"
    ELSE "Hazardous"

\* weights of compute_severity, in the order the dict is iterated
weights == <<[pollutant |-> "pm2_5", weight |-> 5],
             [pollutant |-> "pm10", weight |-> 3],
             [pollutant |-> "nitrogen_dioxide", weight |-> 4],
             [pollutant |-> "sulphur_dioxide", weight |-> 4],
             [pollutant |-> "carbon_monoxide", weight |-> 2],
             [pollutant |-> "ozone", weight |-> 3]>>

\* The for loop of compute_severity from its i-th item on, score so far given.
RECURSIVE SeverityLoop(_, _, _)
SeverityLoop(row, i, score) ==
    IF i > Len(weights) THEN score
    ELSE LET value == row[weights[i].pollutant]
         IN SeverityLoop(row, i + 1,
                         IF NotNa(value) THEN score + value.v * weights[i].weight
                                         ELSE score)

\* Mutant: a null pm2_5 makes the score null, as it makes the AQI null.
compute_severity_nullprop(row) ==
    IF IsNa(row.pm2_5) THEN NA ELSE Num(SeverityLoop(row, 1, 0))

compute_severity(row) == Num(SeverityLoop(row, 1, 0))

\* Mutant: the High Risk bound is inclusive (`>=` for `>`).
classify_risk_inclusive(severity) ==
    IF IsNa(severity) THEN NoCategory
    ELSE IF severity.v >= 400 THEN "High Risk"
    ELSE IF severity.v > 200 THEN "Moderate Risk"
    ELSE "Low Risk"

classify_risk(severity) ==
    IF IsNa(severity) THEN NoCategory
    ELSE IF severity.v > 400 THEN "High Risk"
    ELSE IF severity.v > 200 THEN "Moderate Risk"
    ELSE "Low Risk"

\* The feature-engineering lines of transform_all on one row.
Engineer(row) ==
    [pm10 |-> row.pm10, pm2_5 |-> row.pm2_5,
     carbon_monoxide |-> row.carbon_monoxide,
     nitrogen_dioxide |-> row.nitrogen_dioxide,
     sulphur_dioxide |-> row.sulphur_dioxide,
     ozone |-> row.ozone, uv_index |-> row.uv_index,
     AQI |-> compute_aqi(row.pm2_5),
     severity |-> compute_severity(row),
     risk |-> classify_risk(compute_severity(row))]

\* combined after concat, to_numeric and dropna.
Combined(fr) == DropNaAll([i \in 1..Len(fr) |-> CoerceRow(load_raw_json(fr[i]))])

\* transform_all(): with no non-empty frame it returns an empty frame at once;
\* otherwise the rows are coerced, filtered and scored (the row-wise applies
\* of an emptied frame score nothing and leave it empty).  The city, time and
\* hour columns take no part in the scoring and are left out.
transform_all ==
    /\ t_pc = "start"
    /\ t_pc' = "done"
    /\ IF frame = <<>>
         THEN /\ dataset' = <<>>
              /\ scored' = {}
         ELSE LET combined == Combined(frame)
              IN /\ dataset' = [i \in 1..Len(combined) |-> Engineer(combined[i])]
                 /\ scored' = {combined[i] : i \in 1..Len(combined)}
    /\ UNCHANGED frame
    /\ UNCHANGED <<fetchVars, aqiVars, loadVars>>

TransformNext == transform_all

\* ---- the AQI column of a two-row pm2_5 column ---------------------------
\* Largest pm2_5 reading of the column.
MaxPm == 305

PmValues == {NA} \cup {Num(x) : x \in 0..MaxPm}

\* combined["AQI"] = combined["pm2_5"].apply(compute_aqi)
ApplyComputeAqi ==
    /\ aqi_col = <<>>
    /\ aqi_col' = [i \in 1..Len(pm_series) |-> compute_aqi(pm_series[i])]
    /\ UNCHANGED pm_series
    /\ UNCHANGED <<fetchVars, transformVars, loadVars>>

AqiNext == ApplyComputeAqi

(***************************************************************************)
(*                         load.py: the Loader                             *)
(***************************************************************************)
BATCH_SIZE == 200
LOAD_MAX_RETRIES == 2

\* Largest CSV (number of rows) the loader is run on.
MaxRows == 450

\* Mutant: the slice takes its end row too.
Iloc_inclusive(n, a, b) == <<Min(a, n), Min(b + 1, n)>>

\* df.iloc[a:b] of a frame of n rows: the rows a <= i < b, clipped to the frame.
Iloc(n, a, b) == <<Min(a, n), Min(b, n)>>

BatchLen(b) == b[2] - b[1]

\* range(0, total_records, BATCH_SIZE): the value after s.
RangeNext(s) == s + BATCH_SIZE

\* Mutant: one retry fewer (`<` for `<=`).
LoadRetryCond_lt(a) == a < LOAD_MAX_RETRIES

\* `while attempt <= MAX_RETRIES`
LoadRetryCond(a) == a <= LOAD_MAX_RETRIES

\* Mutant: a batch counts as a full one.
AddInserted_full(c, b) == c + BATCH_SIZE

\* `inserted_count += len(batch_records)`
AddInserted(c, b) == c + BatchLen(b)

\* One step of `for start in range(0, total_records, BATCH_SIZE)`: the next
\* batch is sliced and its retry loop entered, or the range is exhausted and
\* the final report is printed.
LoadNextBatch ==
    /\ l_pc = "for"
    /\ start < total_records
    /\ batch' = Iloc(total_records, start, start + BATCH_SIZE)
    /\ l_attempt' = 0
    /\ l_pc' = IF LoadRetryCond(0) THEN "while" ELSE "for"
    /\ failed_log' = IF LoadRetryCond(0) THEN failed_log ELSE Append(failed_log, start)
    /\ start' = IF LoadRetryCond(0) THEN start ELSE RangeNext(start)
    /\ UNCHANGED <<total_records, inserted_count, insert_log, sleep_log>>
    /\ UNCHANGED <<fetchVars, transformVars, aqiVars>>

LoadFinish ==
    /\ l_pc = "for"
    /\ start >= total_records
    /\ l_pc' = "done"
    /\ UNCHANGED <<total_records, start, batch, l_attempt, inserted_count,
                   insert_log, sleep_log, failed_log>>
    /\ UNCHANGED <<fetchVars, transformVars, aqiVars>>

\* One pass of the retry loop in which insert(...).execute() returns:
\* the batch is counted and `break` leaves the loop (its else is skipped).
LoadInsertOk ==
    /\ l_pc = "while"
    /\ insert_log' = Append(insert_log, [lo |-> batch[1], hi |-> batch[2], ok |-> TRUE])
    /\ inserted_count' = AddInserted(inserted_count, batch)
    /\ l_pc' = "for"
    /\ start' = RangeNext(start)
    /\ UNCHANGED <<total_records, batch, l_attempt, sleep_log, failed_log>>
    /\ UNCHANGED <<fetchVars, transformVars, aqiVars>>

\* One pass of the retry loop in which insert(...).execute() raises: attempt
\* is incremented, the loader sleeps 2 ** attempt, and the loop condition is
\* tested again; when it fails the while-else prints the failure and the
\* for loop goes on.
LoadInsertFail ==
    /\ l_pc = "while"
    /\ insert_log' = Append(insert_log, [lo |-> batch[1], hi |-> batch[2], ok |-> FALSE])
    /\ l_attempt' = l_attempt + 1
    /\ sleep_log' = Append(sleep_log, Pow2(l_attempt + 1))
    /\ IF LoadRetryCond(l_attempt + 1)
         THEN /\ l_pc' = "while"
              /\ UNCHANGED <<start, failed_log>>
         ELSE /\ l_pc' = "for"
              /\ failed_log' = Append(failed_log, start)
              /\ start' = RangeNext(start)
    /\ UNCHANGED <<total_records, batch, inserted_count>>
    /\ UNCHANGED <<fetchVars, transformVars, aqiVars>>

LoadNext ==
    \/ LoadNextBatch
    \/ LoadFinish
    \/ LoadInsertOk
    \/ LoadInsertFail


(***************************************************************************)
(*                            Specifications                               *)
(***************************************************************************)
\* A stage that is not running holds its variables at rest.
InitFetch ==
    /\ cities \in CityLists
    /\ f_pc = "for"
    /\ ci = 1
    /\ attempt = 0
    /\ last_error = NoError
    /\ ret = NoResult
    /\ results = <<>>
    /\ clock = 0
    /\ raw_files = {}
    /\ reopened = {}
    /\ events = <<>>
    /\ frame = <<>>
    /\ t_pc = "done"
    /\ dataset = <<>>
    /\ scored = {}
    /\ pm_series = <<NA, NA>>
    /\ aqi_col = <<NoCategory, NoCategory>>
    /\ l_pc = "done"
    /\ total_records = 0
    /\ start = 0
    /\ batch = <<0, 0>>
    /\ l_attempt = 0
    /\ inserted_count = 0
    /\ insert_log = <<>>
    /\ sleep_log = <<>>
    /\ failed_log = <<>>

InitTransform ==
    /\ frame \in RawFrames
    /\ t_pc = "start"
    /\ dataset = <<>>
    /\ scored = {}
    /\ f_pc = "done"
    /\ cities = <<>>
    /\ ci = 1
    /\ attempt = 0
    /\ last_error = NoError
    /\ ret = NoResult
    /\ results = <<>>
    /\ clock = 0
    /\ raw_files = {}
    /\ reopened = {}
    /\ events = <<>>
    /\ pm_series = <<NA, NA>>
    /\ aqi_col = <<NoCategory, NoCategory>>
    /\ l_pc = "done"
    /\ total_records = 0
    /\ start = 0
    /\ batch = <<0, 0>>
    /\ l_attempt = 0
    /\ inserted_count = 0
    /\ insert_log = <<>>
    /\ sleep_log = <<>>
    /\ failed_log = <<>>

InitAqi ==
    /\ pm_series \in PmValues \X PmValues
    /\ aqi_col = <<>>
    /\ f_pc = "done"
    /\ cities = <<>>
    /\ ci = 1
    /\ attempt = 0
    /\ last_error = NoError
    /\ ret = NoResult
    /\ results = <<>>
    /\ clock = 0
    /\ raw_files = {}
    /\ reopened = {}
    /\ events = <<>>
    /\ frame = <<>>
    /\ t_pc = "done"
    /\ dataset = <<>>
    /\ scored = {}
    /\ l_pc = "done"
    /\ total_records = 0
    /\ start = 0
    /\ batch = <<0, 0>>
    /\ l_attempt = 0
    /\ inserted_count = 0
    /\ insert_log = <<>>
    /\ sleep_log = <<>>
    /\ failed_log = <<>>

InitLoad ==
    /\ total_records \in 0..MaxRows
    /\ l_pc = "for"
    /\ start = 0
    /\ batch = <<0, 0>>
    /\ l_attempt = 0
    /\ inserted_count = 0
    /\ insert_log = <<>>
    /\ sleep_log = <<>>
    /\ failed_log = <<>>
    /\ f_pc = "done"
    /\ cities = <<>>
    /\ ci = 1
    /\ attempt = 0
    /\ last_error = NoError
    /\ ret = NoResult
    /\ results = <<>>
    /\ clock = 0
    /\ raw_files = {}
    /\ reopened = {}
    /\ events = <<>>
    /\ frame = <<>>
    /\ t_pc = "done"
    /\ dataset = <<>>
    /\ scored = {}
    /\ pm_series = <<NA, NA>>
    /\ aqi_col = <<NoCategory, NoCategory>>

SpecFetch == InitFetch /\ [][FetchNext]_vars

SpecTransform == InitTransform /\ [][TransformNext]_vars

SpecAqi == InitAqi /\ [][AqiNext]_vars

SpecLoad == InitLoad /\ [][LoadNext]_vars

(***************************************************************************)
(*                          Properties: Fetcher                            *)
(***************************************************************************)
\* The requests.get calls of the current _fetch_city call, in order.
IsGet(ev) == ev.type = "get"
Gets == SelectSeq(events, IsGet)

\* C1: a city whose every attempt fails is requested exactly MAX_RETRIES
\* times and yields a failure result with the last attempt's error; a city
\* whose attempt k is the first to succeed is requested exactly k times,
\* yields a success result with the saved path, and is not requested again.
C1_RetryCount ==
    /\ Len(Gets) <= FETCH_MAX_RETRIES
    /\ \A i \in 1..Len(Gets) :
         /\ Gets[i].attempt = i
         /\ i < Len(Gets) => Gets[i].outcome # "ok"
    /\ f_pc = "ret" =>
         /\ ret.city = cities[ci]
         /\ IF \A i \in 1..Len(Gets) : Gets[i].outcome # "ok"
              THEN /\ Len(Gets) = FETCH_MAX_RETRIES
                   /\ ret.success = "false"
                   /\ ret.error = Gets[Len(Gets)].outcome
              ELSE /\ Gets[Len(Gets)].outcome = "ok"
                   /\ ret.success = "true"
                   /\ ret.raw_path \in raw_files
                   /\ ret.raw_path.stem = FileStem(cities[ci])

\* A city failed on every attempt, with different errors first and last.
C1_Witness ==
    /\ f_pc = "ret"
    /\ ret.success = "false"
    /\ Len(Gets) = FETCH_MAX_RETRIES
    /\ Gets[1].outcome = "Exception"
    /\ Gets[Len(Gets)].outcome = "RequestException"
    /\ ret.error = "RequestException"

\* C7: no _save_raw call opens for writing a path that an earlier _save_raw
\* call already wrote.
C7_NeverOverwrites == reopened = {}

\* C8: every backoff wait of a finished _fetch_city call lasts 2^(k-1)
\* seconds after failed attempt k and is followed by attempt k+1; none
\* follows the last permitted attempt.
C8_BackoffOnlyBetweenAttempts ==
    f_pc = "ret" =>
        \A i \in 1..Len(events) :
            events[i].type = "sleep" =>
                /\ events[i].secs = Pow2(events[i].attempt - 1)
                /\ events[i].attempt < FETCH_MAX_RETRIES
                /\ i < Len(events)
                /\ events[i + 1].type = "get"
                /\ events[i + 1].attempt = events[i].attempt + 1

(***************************************************************************)
(*                        Properties: Transformer                          *)
(***************************************************************************)
WeightedCols == {"pm2_5", "pm10", "nitrogen_dioxide", "sulphur_dioxide",
                 "carbon_monoxide", "ozone"}
RiskCategories == {"High Risk", "Moderate Risk", "Low Risk"}
AqiCategories == <<"Good", "Moderate", "Unhealthy", "Very Unhealthy", "Hazardous">>

\* The frame as the scoring step sees a raw row: missing columns and
\* non-numeric cells are null.
IsNullCell(c) == c.k \in {"absent", "na", "str"}

C6_NeverScoresSixNull ==
    \A r \in scored : \E col \in WeightedCols : NotNa(r[col])

\* C6 amended: compute_severity is applied to exactly the rows that have a
\* value in at least one of the seven pollutant columns, uv_index included;
\* a row with all seven null is dropped before scoring.
C6_NeverScoresSevenNull ==
    /\ \A r \in scored : \E col \in numeric_cols : NotNa(r[col])
    /\ t_pc = "done" =>
         /\ \A i \in 1..Len(frame) :
              (\E col \in numeric_cols : ~IsNullCell(frame[i][col]))
                  <=> (\E r \in scored :
                          \A col \in numeric_cols :
                              IF IsNullCell(frame[i][col]) THEN IsNa(r[col])
                                                           ELSE r[col] = frame[i][col])
         /\ \A i \in 1..Len(dataset) :
              \E col \in numeric_cols : NotNa(dataset[i][col])

\* A row with no value in any of the seven columns was dropped unscored.
C6_Witness ==
    /\ t_pc = "done"
    /\ Len(frame) = 1
    /\ \A col \in numeric_cols : IsNullCell(frame[1][col])
    /\ frame[1].pm2_5 = Str
    /\ scored = {}
    /\ dataset = <<>>

\* value * weight of a present pollutant, 0 of a null one
Contribution(c, w) == IF NotNa(c) THEN c.v * w ELSE 0

WeightedSum(r) ==
    Contribution(r.pm2_5, 5) + Contribution(r.pm10, 3)
    + Contribution(r.nitrogen_dioxide, 4) + Contribution(r.sulphur_dioxide, 4)
    + Contribution(r.carbon_monoxide, 2) + Contribution(r.ozone, 3)

IsExampleRow(r) ==
    /\ r.pm2_5 = Num(80) /\ r.pm10 = Num(40) /\ r.nitrogen_dioxide = Num(20)
    /\ r.sulphur_dioxide = Num(10) /\ r.carbon_monoxide = Num(5) /\ r.ozone = Num(30)

\* C10: the severity of every record is the weighted sum of its non-null
\* pollutants; its risk is High Risk iff severity > 400, Moderate Risk iff
\* 200 < severity <= 400, Low Risk otherwise; 80,40,20,10,5,30 gives 740
\* and High Risk.
C10_SeverityAndRisk ==
    \A i \in 1..Len(dataset) :
        LET r == dataset[i]
        IN /\ r.severity = Num(WeightedSum(r))
           /\ r.risk = "High Risk" <=> WeightedSum(r) > 400
           /\ r.risk = "Moderate Risk" <=> (200 < WeightedSum(r) /\ WeightedSum(r) <= 400)
           /\ r.risk = "Low Risk" <=> WeightedSum(r) <= 200
           /\ IsExampleRow(r) => r.severity = Num(740) /\ r.risk = "High Risk"

\* The example row was scored; so was a row on the 400 boundary.
C10_Witness ==
    /\ t_pc = "done"
    /\ \E i \in 1..Len(dataset) :
         /\ IsExampleRow(dataset[i])
         /\ dataset[i].severity = Num(740)
         /\ dataset[i].risk = "High Risk"

\* Position of a category in the order Good < ... < Hazardous (0: none).
AqiRank(a) ==
    IF \E k \in 1..Len(AqiCategories) : AqiCategories[k] = a
      THEN CHOOSE k \in 1..Len(AqiCategories) : AqiCategories[k] = a
      ELSE 0

\* C9: the AQI of a non-null pm2_5 v is Good iff v <= 50, Moderate iff
\* 50 < v <= 100, Unhealthy iff 100 < v <= 200, Very Unhealthy iff
\* 200 < v <= 300, Hazardous iff v > 300; it never decreases as v grows;
\* the AQI of a null pm2_5 is null.
C9_AqiBuckets ==
    aqi_col # <<>> =>
        /\ Len(aqi_col) = Len(pm_series)
        /\ \A i \in 1..Len(pm_series) :
             LET c == pm_series[i]
                 a == aqi_col[i]
             IN /\ IsNa(c) => a = NoCategory
                /\ NotNa(c) =>
                     /\ AqiRank(a) \in 1..5
                     /\ a = "Good" <=> c.v <= 50
                     /\ a = "Moderate" <=> (50 < c.v /\ c.v <= 100)
                     /\ a = "Unhealthy" <=> (100 < c.v /\ c.v <= 200)
                     /\ a = "Very Unhealthy" <=> (200 < c.v /\ c.v <= 300)
                     /\ a = "Hazardous" <=> c.v > 300
        /\ \A i, j \in 1..Len(pm_series) :
             (NotNa(pm_series[i]) /\ NotNa(pm_series[j])
                 /\ pm_series[i].v <= pm_series[j].v)
                 => AqiRank(aqi_col[i]) <= AqiRank(aqi_col[j])

\* The two sides of the first boundary were bucketed.
C9_Witness ==
    /\ pm_series = <<Num(50), Num(51)>>
    /\ aqi_col = <<"Good", "Moderate">>

(***************************************************************************)
(*                          Properties: Loader                             *)
(***************************************************************************)
\* ceil(n / BATCH_SIZE)
NumBatches(n) == (n + BATCH_SIZE - 1) \div BATCH_SIZE

\* The insert calls made for the k-th batch (k from 0), as places in the log.
CallsOf(k) == {i \in 1..Len(insert_log) : insert_log[i].lo = k * BATCH_SIZE}
OkCallsOf(k) == {i \in CallsOf(k) : insert_log[i].ok}

\* The rows of the k-th batch of n rows.
BatchRows(n, k) == Min((k + 1) * BATCH_SIZE, n) - k * BATCH_SIZE

RECURSIVE SumSucceeded(_, _)
SumSucceeded(n, k) ==
    IF k < 0 THEN 0
    ELSE SumSucceeded(n, k - 1) + (IF OkCallsOf(k) # {} THEN BatchRows(n, k) ELSE 0)

\* C2: a batch whose every insert fails gets exactly MAX_RETRIES + 1 insert
\* calls and is then skipped; every batch of the frame is attempted all the
\* same.
C2_FailedBatchSkipped ==
    /\ \A k \in 0..NumBatches(total_records) :
         Cardinality(CallsOf(k)) <= LOAD_MAX_RETRIES + 1
    /\ l_pc = "done" =>
         \A k \in 0..(NumBatches(total_records) - 1) :
             /\ CallsOf(k) # {}
             /\ OkCallsOf(k) = {} =>
                  /\ Cardinality(CallsOf(k)) = LOAD_MAX_RETRIES + 1
                  /\ \E j \in 1..Len(failed_log) : failed_log[j] = k * BATCH_SIZE
             /\ OkCallsOf(k) # {} =>
                  \A j \in 1..Len(failed_log) : failed_log[j] # k * BATCH_SIZE

\* The first batch failed on every attempt and the last was inserted.
C2_Witness ==
    /\ l_pc = "done"
    /\ total_records = 450
    /\ Cardinality(CallsOf(0)) = 3
    /\ OkCallsOf(0) = {}
    /\ OkCallsOf(2) # {}
    /\ failed_log = <<0>>

\* C3: when every insert succeeds at once, N rows go out in ceil(N/B)
\* calls, the i-th carrying the rows (i-1)*B <= r < min(i*B, N).
C3_BatchPartition ==
    (l_pc = "done" /\ \A i \in 1..Len(insert_log) : insert_log[i].ok) =>
        /\ Len(insert_log) = NumBatches(total_records)
        /\ total_records = 0 => insert_log = <<>>
        /\ \A i \in 1..Len(insert_log) :
             /\ insert_log[i].lo = (i - 1) * BATCH_SIZE
             /\ insert_log[i].hi = Min(i * BATCH_SIZE, total_records)
             /\ insert_log[i].lo < insert_log[i].hi
             /\ i < Len(insert_log) =>
                  /\ insert_log[i].hi - insert_log[i].lo = BATCH_SIZE
                  /\ insert_log[i + 1].lo = insert_log[i].hi
             /\ i = Len(insert_log) =>
                  /\ insert_log[i].hi = total_records
                  /\ insert_log[i].hi - insert_log[i].lo
                       = total_records - BATCH_SIZE * (NumBatches(total_records) - 1)
        /\ total_records = 450 =>
             /\ Len(insert_log) = 3
             /\ \A i \in 1..3 :
                  insert_log[i].hi - insert_log[i].lo = <<200, 200, 50>>[i]

\* 450 rows went out in three calls.
C3_Witness ==
    /\ l_pc = "done"
    /\ total_records = 450
    /\ Len(insert_log) = 3
    /\ \A i \in 1..3 : insert_log[i].ok
    /\ insert_log[3] = [lo |-> 400, hi |-> 450, ok |-> TRUE]

\* C4: the reported count is the sum of the sizes of the batches some insert
\* of which succeeded, each counted once; 0 <= inserted <= total, with
\* equality iff every batch succeeded.
C4_InsertedCount ==
    /\ 0 <= inserted_count
    /\ inserted_count <= total_records
    /\ \A k \in 0..NumBatches(total_records) : Cardinality(OkCallsOf(k)) <= 1
    /\ l_pc = "done" =>
         /\ inserted_count = SumSucceeded(total_records, NumBatches(total_records) - 1)
         /\ inserted_count = total_records
              <=> \A k \in 0..(NumBatches(total_records) - 1) : OkCallsOf(k) # {}

\* One batch was skipped, a short last batch inserted after a retry.
C4_Witness ==
    /\ l_pc = "done"
    /\ total_records = 450
    /\ OkCallsOf(1) = {}
    /\ Cardinality(CallsOf(2)) = 2
    /\ inserted_count = 250

=============================================================================
